---- MODULE Spec2Model ----
(***************************************************************************)
(* Model of the terminal snake game: Game::new and Game::run of           *)
(* src/game.rs, Direction::opposite of src/direction.rs, and the Point,    *)
(* Snake and Command types that game.rs uses.                              *)
(*                                                                         *)
(* One run of the program is Game::new(stdout, width, height).run().       *)
(* The position of run() is kept in pc:                                    *)
(*   "new"      Game::new has returned, run() not yet entered              *)
(*   "loop"     at the test of `while !done`                               *)
(*   "poll"     inside the input window `while now.elapsed() < interval`   *)
(*   "step"     the input window is closed, line 81 is next                *)
(*   "placing"  place_food spins: every cell it can draw is in the snake   *)
(*   "exited"   run() has returned                                         *)
(*   "panicked" the thread panicked (arithmetic overflow in a build with   *)
(*              overflow checks, or division by zero)                      *)
(***************************************************************************)
EXTENDS Integers, Naturals, Sequences, FiniteSets, TLC

VARIABLES width, height, food, snake_body, snake_direction, speed, score,
          pc, done, interval, direction, command, ui, score_line

vars == <<width, height, food, snake_body, snake_direction, speed, score,
          pc, done, interval, direction, command, ui, score_line>>

(***************************************************************************)
(* Bounds of the exploration.                                              *)
(***************************************************************************)
\* side of the square board handed to Game::new in Spec
BoardSide == 5
\* foods that may be eaten in Spec before exploration stops
MaxScore == 1
\* a tick is explored only while at most this many body points lie outside the board
MaxOffGrid == 1
\* foods that may be eaten in SpecSmall before exploration stops
MaxScoreSmall == 11
\* in SpecSmall a tick is explored only while at most this many body points lie outside the board
MaxOffGridSmall == 0
\* foods that may be eaten in SpecMid before exploration stops
MaxScoreMid == 4
\* the board of SpecSmall: (7 * 2) / MAX_SPEED = 1
SmallBoard == <<7, 2>>
\* the board of SpecMid: (8 * 2) / MAX_SPEED = 2
MidBoard == <<8, 2>>
\* a board of fewer than MAX_SPEED cells
TinyBoard == <<7, 1>>
\* main.rs: the board of the shipped game; ticks start while the head is
\* within MaxRange cells of the spawn cell
MainBoard == <<20, 20>>
MaxRange == 0

(***************************************************************************)
(* Program constants.                                                      *)
(***************************************************************************)
MAX_INTERVAL == 128
MIN_INTERVAL == 32
MAX_SPEED == 8
\* u16 arithmetic is modulo 2^16
U16 == 65536
\* length handed to Snake::new by Game::new
InitialLength == 3

None == <<>>
Direction == {"Up", "Right", "Down", "Left"}
Quit == <<"Quit">>
Turn(d) == <<"Turn", d>>
Command == {Quit} \cup {Turn(d) : d \in Direction}

(***************************************************************************)
(* Direction::opposite                                                     *)
(***************************************************************************)
opposite_mutant(d) ==
    CASE d = "Up" -> "Down"
      [] d = "Right" -> "Left"
      [] d = "Down" -> "Up"
      [] d = "Left" -> "Left"

opposite(d) ==
    CASE d = "Up" -> "Down"
      [] d = "Right" -> "Left"
      [] d = "Down" -> "Up"
      [] d = "Left" -> "Right"

(***************************************************************************)
(* Point: <<x, y>>, both u16.  transform subtracts for Up/Left and adds    *)
(* for Down/Right; transform_overflows tells whether that u16 operation    *)
(* leaves 0..65535, in which case a build with overflow checks panics and  *)
(* a build without them wraps.                                             *)
(***************************************************************************)
Point(x, y) == <<x, y>>

transform_overflows(p, d, distance) ==
    CASE d = "Up" -> p[2] < distance
      [] d = "Right" -> p[1] + distance >= U16
      [] d = "Down" -> p[2] + distance >= U16
      [] d = "Left" -> p[1] < distance

transform(p, d, distance) ==
    CASE d = "Up" -> Point(p[1], (p[2] - distance) % U16)
      [] d = "Right" -> Point((p[1] + distance) % U16, p[2])
      [] d = "Down" -> Point(p[1], (p[2] + distance) % U16)
      [] d = "Left" -> Point((p[1] - distance) % U16, p[2])

(***************************************************************************)
(* Snake: the body, head first, and the heading.                           *)
(***************************************************************************)
\* Snake::new lays the body out behind the head, along opposite(d)
snake_new_overflows(start, length, d) ==
    \E i \in 0..(length - 1) : transform_overflows(start, opposite(d), i)

snake_new(start, length, d) ==
    [i \in 1..length |-> transform(start, opposite(d), i - 1)]

get_head_point(body) == body[1]

contains_point(body, p) == \E i \in 1..Len(body) : body[i] = p

slither(body, d) ==
    <<transform(get_head_point(body), d, 1)>> \o SubSeq(body, 1, Len(body) - 1)

grow(body, d) ==
    <<transform(get_head_point(body), d, 1)>> \o body

(***************************************************************************)
(* Game                                                                    *)
(***************************************************************************)
has_collided_with_wall_mutant(body, d, w, h) ==
    LET head_point == get_head_point(body) IN
    CASE d = "Up" -> head_point[2] = 0
      [] d = "Right" -> head_point[1] = w
      [] d = "Down" -> head_point[2] = h
      [] d = "Left" -> head_point[1] = 0

has_collided_with_wall(body, d, w, h) ==
    LET head_point == get_head_point(body) IN
    CASE d = "Up" -> head_point[2] = 0
      [] d = "Right" -> head_point[1] = w - 1
      [] d = "Down" -> head_point[2] = h - 1
      [] d = "Left" -> head_point[1] = 0

has_bitten_itself_mutant(body, d) ==
    LET next_head_point == transform(get_head_point(body), d, 1)
        next_body_points == SubSeq(body, 2, Len(body))
    IN  contains_point(next_body_points, next_head_point)

has_bitten_itself(body, d) ==
    LET next_head_point == transform(get_head_point(body), d, 1)
        next_body_points == SubSeq(body, 2, Len(body) - 1)
    IN  contains_point(next_body_points, next_head_point)

\* the points place_food can leave in self.food
place_food_mutant(body, w, h) ==
    {Point(x, y) : x \in 0..(w - 1), y \in 0..(h - 1)}

place_food(body, w, h) ==
    {p \in {Point(x, y) : x \in 0..(w - 1), y \in 0..(h - 1)} :
        ~contains_point(body, p)}

\* lines 86-87, on the slithered body
eats_food_mutant(body, f) == f # None

eats_food(body, f) == f # None /\ get_head_point(body) = f

\* line 90
score_after_food_mutant(s) == s

score_after_food(s) == (s + 1) % U16

\* MAX_SPEED - self.speed
calculate_interval_overflows(s) == s > MAX_SPEED

calculate_interval_mutant(s) ==
    LET sp == s % U16 IN
    (MIN_INTERVAL + ((((MAX_INTERVAL - MIN_INTERVAL) \div MAX_SPEED) * sp) % U16)) % U16

calculate_interval(s) ==
    LET sp == (MAX_SPEED - s) % U16 IN
    (MIN_INTERVAL + ((((MAX_INTERVAL - MIN_INTERVAL) \div MAX_SPEED) * sp) % U16)) % U16

\* (self.width * self.height) / MAX_SPEED
speed_threshold(w, h) == ((w * h) % U16) \div MAX_SPEED

\* lines 92-94, with self.score already incremented
speed_after_food_mutant(new_score, s, w, h) ==
    IF (new_score - 1) % speed_threshold(w, h) = 0 THEN (s + 1) % U16 ELSE s

speed_after_food(new_score, s, w, h) ==
    IF new_score % speed_threshold(w, h) = 0 THEN (s + 1) % U16 ELSE s

\* the test on Command::Turn(towards), against the heading at tick start
turn_applies_mutant(baseline, towards) == baseline # towards

turn_applies(baseline, towards) ==
    baseline # towards /\ opposite(baseline) # towards

prepare_ui(u) == [u EXCEPT !.raw_mode = TRUE, !.cursor_hidden = TRUE,
                            !.prepared = @ + 1]

restore_ui(u) == [u EXCEPT !.raw_mode = FALSE, !.cursor_hidden = FALSE,
                            !.restored = @ + 1]

OffGrid(body, w, h) ==
    {i \in 1..Len(body) : ~(body[i][1] < w /\ body[i][2] < h)}

(***************************************************************************)
(* Game::new, for a board w x h and the drawn initial direction d.  When   *)
(* laying out the body underflows, the constructor panics or wraps.        *)
(***************************************************************************)
GameNew(w, h, d) ==
    /\ width = w
    /\ height = h
    /\ food = None
    /\ snake_direction = d
    /\ speed = 0
    /\ score = 0
    /\ done = FALSE
    /\ interval = 0
    /\ direction = d
    /\ command = None
    /\ ui = [raw_mode |-> FALSE, cursor_hidden |-> FALSE, prepared |-> 0, restored |-> 0]
    /\ score_line = None
    /\ snake_body = snake_new(Point(w \div 2, h \div 2), InitialLength, d)
    /\ \/ pc = "new"
       \/ /\ snake_new_overflows(Point(w \div 2, h \div 2), InitialLength, d)
          /\ pc = "panicked"

Init == \E d \in Direction : GameNew(BoardSide, BoardSide, d)

(***************************************************************************)
(* run(), lines 55-57: place_food, prepare_ui, render.                     *)
(***************************************************************************)
RunStart ==
    /\ pc = "new"
    /\ \/ /\ place_food(snake_body, width, height) # {}
          /\ \E p \in place_food(snake_body, width, height) : food' = p
          /\ ui' = prepare_ui(ui)
          /\ pc' = "loop"
       \/ /\ place_food(snake_body, width, height) = {}
          /\ pc' = "placing"
          /\ UNCHANGED <<food, ui>>
    /\ UNCHANGED <<width, height, snake_body, snake_direction, speed, score,
                   done, interval, direction, command, score_line>>

(***************************************************************************)
(* Lines 60-63: the loop test passed; interval, baseline direction, now.   *)
(***************************************************************************)
TickStart ==
    /\ pc = "loop"
    /\ ~done
    /\ Cardinality(OffGrid(snake_body, width, height)) <= MaxOffGrid
    /\ \/ /\ interval' = calculate_interval(speed)
          /\ direction' = snake_direction
          /\ command' = None
          /\ pc' = "poll"
       \/ /\ calculate_interval_overflows(speed)
          /\ pc' = "panicked"
          /\ UNCHANGED <<interval, direction, command>>
    /\ UNCHANGED <<width, height, food, snake_body, snake_direction, speed,
                   score, done, ui, score_line>>

(***************************************************************************)
(* Lines 65-79: get_command returns Some(c) inside the window.  command    *)
(* is the value bound at line 66.                                          *)
(***************************************************************************)
GetCommand(c) ==
    /\ pc = "poll"
    /\ command' = c
    /\ IF c = Quit
       THEN /\ done' = TRUE
            /\ pc' = "step"
            /\ UNCHANGED snake_direction
       ELSE /\ snake_direction' = IF turn_applies(direction, c[2])
                                  THEN c[2] ELSE snake_direction
            /\ UNCHANGED <<pc, done>>
    /\ UNCHANGED <<width, height, food, snake_body, speed, score, interval,
                   direction, ui, score_line>>

\* line 65: now.elapsed() >= interval
WindowElapsed ==
    /\ pc = "poll"
    /\ pc' = "step"
    /\ UNCHANGED <<width, height, food, snake_body, snake_direction, speed,
                   score, done, interval, direction, command, ui, score_line>>

(***************************************************************************)
(* Lines 81-99: collision checks, slither, food, score and speed.  The     *)
(* eating branch is explored while score < cap.                            *)
(***************************************************************************)
Step(cap) ==
    /\ pc = "step"
    /\ LET wall == has_collided_with_wall(snake_body, snake_direction, width, height)
           bitten == has_bitten_itself(snake_body, snake_direction)
           slithered == slither(snake_body, snake_direction)
           eats == eats_food(slithered, food)
           grown == grow(slithered, snake_direction)
           free == place_food(grown, width, height)
           threshold == speed_threshold(width, height)
       IN
       \/ \* line 82
          /\ wall \/ bitten
          /\ done' = TRUE
          /\ pc' = "loop"
          /\ UNCHANGED <<food, snake_body, speed, score>>
       \/ \* has_bitten_itself: the transform overflows and the build checks it
          /\ ~wall
          /\ transform_overflows(get_head_point(snake_body), snake_direction, 1)
          /\ pc' = "panicked"
          /\ UNCHANGED <<food, snake_body, speed, score, done>>
       \/ \* line 84 alone
          /\ ~wall /\ ~bitten /\ ~eats
          /\ snake_body' = slithered
          /\ pc' = "loop"
          /\ UNCHANGED <<food, speed, score, done>>
       \/ \* lines 84-95
          /\ ~wall /\ ~bitten /\ eats
          /\ score < cap
          /\ \/ \* grow: the transform overflows and the build checks it
                /\ transform_overflows(get_head_point(slithered), snake_direction, 1)
                /\ snake_body' = slithered
                /\ pc' = "panicked"
                /\ UNCHANGED <<food, speed, score, done>>
             \/ \* place_food never finds a free cell
                /\ free = {}
                /\ snake_body' = grown
                /\ pc' = "placing"
                /\ UNCHANGED <<food, speed, score, done>>
             \/ /\ free # {}
                /\ snake_body' = grown
                /\ \E p \in free : food' = p
                /\ score' = score_after_food(score)
                /\ \/ \* width * height overflows and the build checks it, or % 0
                      /\ width * height >= U16 \/ threshold = 0
                      /\ pc' = "panicked"
                      /\ UNCHANGED <<speed, done>>
                   \/ /\ threshold # 0
                      /\ speed' = speed_after_food(score', speed, width, height)
                      /\ pc' = "loop"
                      /\ UNCHANGED done
    /\ UNCHANGED <<width, height, snake_direction, interval, direction,
                   command, ui, score_line>>

(***************************************************************************)
(* Lines 102-104: the loop test failed; restore_ui, then the score line.   *)
(***************************************************************************)
Exit ==
    /\ pc = "loop"
    /\ done
    /\ ui' = restore_ui(ui)
    /\ score_line' = <<score>>
    /\ pc' = "exited"
    /\ UNCHANGED <<width, height, food, snake_body, snake_direction, speed,
                   score, done, interval, direction, command>>

Next ==
    \/ RunStart
    \/ TickStart
    \/ \E c \in Command : GetCommand(c)
    \/ WindowElapsed
    \/ Step(MaxScore)
    \/ Exit

Spec == Init /\ [][Next]_vars

(***************************************************************************)
(* The same program on a 7 x 2 board, where every food raises the speed.   *)
(***************************************************************************)
InitSmall == \E d \in Direction : GameNew(SmallBoard[1], SmallBoard[2], d)

NextSmall ==
    \/ RunStart
    \/ TickStart /\ Cardinality(OffGrid(snake_body, width, height)) <= MaxOffGridSmall
    \/ \E c \in Command : GetCommand(c)
    \/ WindowElapsed
    \/ Step(MaxScoreSmall)
    \/ Exit

SpecSmall == InitSmall /\ [][NextSmall]_vars

(***************************************************************************)
(* The same program on an 8 x 2 board, where every second food raises the  *)
(* speed.                                                                  *)
(***************************************************************************)
InitMid == \E d \in Direction : GameNew(MidBoard[1], MidBoard[2], d)

NextMid ==
    \/ RunStart
    \/ TickStart
    \/ \E c \in Command : GetCommand(c)
    \/ WindowElapsed
    \/ Step(MaxScoreMid)
    \/ Exit

SpecMid == InitMid /\ [][NextMid]_vars

(***************************************************************************)
(* The program as main() starts it, on the 20 x 20 board, followed while   *)
(* the head stays near the cell it spawned on.                             *)
(***************************************************************************)
Init20 == \E d \in Direction : GameNew(MainBoard[1], MainBoard[2], d)

NearSpawn(p) ==
    /\ p[1] \in ((width \div 2) - MaxRange)..((width \div 2) + MaxRange)
    /\ p[2] \in ((height \div 2) - MaxRange)..((height \div 2) + MaxRange)

Next20 ==
    \/ RunStart
    \/ TickStart /\ NearSpawn(get_head_point(snake_body))
    \/ \E c \in Command : GetCommand(c)
    \/ WindowElapsed
    \/ Step(MaxScore)
    \/ Exit

Spec20 == Init20 /\ [][Next20]_vars

(***************************************************************************)
(* The same program on a 7 x 1 board: positive width and height, fewer     *)
(* than MAX_SPEED cells.                                                   *)
(***************************************************************************)
InitTiny == \E d \in Direction : GameNew(TinyBoard[1], TinyBoard[2], d)

NextTiny ==
    \/ RunStart
    \/ TickStart
    \/ \E c \in Command : GetCommand(c)
    \/ WindowElapsed
    \/ Step(MaxScore)
    \/ Exit

SpecTiny == InitTiny /\ [][NextTiny]_vars

(***************************************************************************)
(* Vocabulary of the properties.                                           *)
(***************************************************************************)
InBoard(p) == p[1] < width /\ p[2] < height

\* the loop is at or inside a tick and no exit has been decided
Running == pc \in {"loop", "poll", "step"} /\ ~done

\* at pc = "step": line 84 is reached and the slithered head lands on the food
HeadReachesFood ==
    /\ ~has_collided_with_wall(snake_body, snake_direction, width, height)
    /\ ~has_bitten_itself(snake_body, snake_direction)
    /\ food # None
    /\ transform(get_head_point(snake_body), snake_direction, 1) = food

\* a Turn towards t is legal against baseline D
LegalTurn(t, D) == t # D /\ t # opposite(D)

\* the head is on the edge of the board that the heading points to
OnEdge ==
    \/ snake_direction = "Up" /\ snake_body[1][2] = 0
    \/ snake_direction = "Right" /\ snake_body[1][1] = width - 1
    \/ snake_direction = "Down" /\ snake_body[1][2] = height - 1
    \/ snake_direction = "Left" /\ snake_body[1][1] = 0

(***************************************************************************)
(* C1: while the game is Running, every body point (x, y) of the snake has *)
(* 0 <= x < width and 0 <= y < height.                                     *)
(***************************************************************************)
SnakeStaysInGrid ==
    Running => \A i \in 1..Len(snake_body) : InBoard(snake_body[i])

(***************************************************************************)
(* C2: in a window without Quit, the heading is the last Turn(d) that came *)
(* with d # D and d # opposite(D), D being the heading at tick start, and  *)
(* D itself when there is none.  Stated by induction on the commands of    *)
(* the window: D before any command; d after a Turn(d) legal against D;    *)
(* unchanged by a Turn(d) that is not, and by the close of the window.     *)
(***************************************************************************)
TurnsJudgedAgainstBaseline ==
    [][/\ (pc = "loop" /\ pc' = "poll")
            => direction' = snake_direction /\ snake_direction' = snake_direction
       /\ (pc = "poll" /\ ~done')
            => /\ direction' = direction
               /\ pc' = "poll" =>
                     /\ command' \in {Turn(t) : t \in Direction}
                     /\ snake_direction' = IF LegalTurn(command'[2], direction)
                                           THEN command'[2] ELSE snake_direction
               /\ pc' = "step" => snake_direction' = snake_direction]_vars

\* heading Up, Turn(Left) was applied and a later Turn(Down) was not
TurnsJudgedWitness ==
    /\ pc = "step"
    /\ ~done
    /\ direction = "Up"
    /\ command = Turn("Down")
    /\ snake_direction = "Left"

(***************************************************************************)
(* C3: once Quit has come,    body, score, speed and food stay what they   *)
(* were when it arrived.                                                   *)
(***************************************************************************)
QuitFreezesGame ==
    [][(pc = "step" /\ done) => UNCHANGED <<snake_body, score, speed, food>>]_vars

(***************************************************************************)
(* C4: on a tick whose move puts the head on the food, the new body is the *)
(* food cell followed by the whole old body, and score grows by one.       *)
(***************************************************************************)
GrowthReplacesSlither ==
    [][(pc = "step" /\ ~done /\ HeadReachesFood /\ pc' = "loop")
          => /\ snake_body' = <<food>> \o snake_body
             /\ Len(snake_body') = Len(snake_body) + 1
             /\ score' = score + 1]_vars

(***************************************************************************)
(* C5: speed never exceeds MAX_SPEED.                                      *)
(***************************************************************************)
SpeedCapped == speed <= MAX_SPEED

(***************************************************************************)
(* C6: speed grows by one exactly on the steps that eat a food and bring   *)
(* score to a multiple of (width * height) / MAX_SPEED, and is unchanged   *)
(* on every other step, so that between ticks speed = score div that       *)
(* threshold; on the 20 x 20 board the threshold is 50.                    *)
(***************************************************************************)
SpeedFollowsScore ==
    [][LET T == speed_threshold(width, height)
           crossed == score' = score + 1 /\ score' % T = 0
       IN  /\ speed_threshold(20, 20) = 50
           /\ crossed => speed' = speed + 1
           /\ ~crossed => speed' = speed
           /\ pc' = "loop" => speed' = score' \div T]_vars

\* four foods eaten with threshold 2: speed went 0, 0, 1, 1, 2
SpeedFollowsScoreWitness ==
    /\ pc = "loop"
    /\ speed_threshold(width, height) = 2
    /\ score = 4
    /\ speed = 2

(***************************************************************************)
(* C7: between ticks the food is a cell of the board that no body point of *)
(* the snake occupies.                                                     *)
(***************************************************************************)
FoodOffSnake ==
    (pc \in {"loop", "poll", "step", "exited"})
        => /\ food # None
           /\ InBoard(food)
           /\ ~contains_point(snake_body, food)

\* a food has been eaten and place_food has run on the grown snake
FoodOffSnakeWitness ==
    /\ pc = "loop"
    /\ score = 1
    /\ Len(snake_body) = InitialLength + 1
    /\ food # None

(***************************************************************************)
(* C8: prepare_ui runs once; whenever run() has left the loop after it,     *)
(* restore_ui has run exactly once and the terminal is out of raw mode,    *)
(* and the score line is written only after restore_ui.                    *)
(***************************************************************************)
TerminalReleasedOnEveryExit ==
    /\ ui.prepared <= 1
    /\ score_line # None => ui.restored = 1
    /\ (pc \in {"exited", "panicked"} /\ ui.prepared = 1)
          => ui.restored = 1 /\ ~ui.raw_mode

(***************************************************************************)
(* C9: opposite is an involution without fixed point: Up <-> Down and      *)
(* Right <-> Left.                                                         *)
(***************************************************************************)
OppositeInvolution ==
    /\ \A d \in Direction :
          /\ opposite(d) \in Direction
          /\ opposite(opposite(d)) = d
          /\ opposite(d) # d
    /\ opposite("Up") = "Down"
    /\ opposite("Right") = "Left"
    /\ opposite(snake_direction) # snake_direction

\* a Turn to the opposite of the baseline heading came and was rejected
OppositeWitness ==
    /\ pc = "poll"
    /\ command = Turn(opposite(direction))
    /\ snake_direction = direction

(***************************************************************************)
(* C10: no step translates the head Up from y = 0 or Left from x = 0,      *)
(* neither in has_bitten_itself, nor in slither, nor in grow.              *)
(***************************************************************************)
Decrements(d) == d \in {"Up", "Left"}

NoCoordinateUnderflow ==
    [][(pc = "step" /\ ~done /\ Decrements(snake_direction)
          /\ ~has_collided_with_wall(snake_body, snake_direction, width, height))
          => /\ ~transform_overflows(get_head_point(snake_body), snake_direction, 1)
             /\ HeadReachesFood =>
                  ~transform_overflows(food, snake_direction, 1)]_vars

(***************************************************************************)
(* C11: when a window without Quit closes with the head on the edge that   *)
(* the heading points to, that tick ends the game and leaves snake, score, *)
(* speed and food as they were; with the head elsewhere no wall collision  *)
(* is reported, so a tick that does not bite itself does not end the game. *)
(* Heading Right at (19,10) on a board 20 wide is a wall collision.        *)
(***************************************************************************)
WallCollisionEndsGame ==
    [][(pc = "step" /\ ~done)
          => /\ has_collided_with_wall(<<Point(19, 10), Point(18, 10), Point(17, 10)>>,
                                       "Right", 20, 20)
             /\ OnEdge => /\ done' /\ pc' = "loop"
                          /\ UNCHANGED <<snake_body, snake_direction, score, speed, food>>
             /\ ~OnEdge => /\ ~has_collided_with_wall(snake_body, snake_direction,
                                                      width, height)
                           /\ ~has_bitten_itself(snake_body, snake_direction) => ~done']_vars

\* a window without Quit closed with the head on the edge, and the game is over
WallCollisionWitness ==
    /\ pc = "loop"
    /\ done
    /\ command # Quit
    /\ OnEdge

(***************************************************************************)
(* C12: a tick without Quit and without wall collision ends the game       *)
(* exactly when the cell one ahead of the head along the heading is a body *)
(* segment other than the head and the tail; a move into the cell of the   *)
(* tail is not a collision and the snake makes it.                         *)
(***************************************************************************)
SelfCollisionRule ==
    [][(pc = "step" /\ ~done /\ ~OnEdge /\ pc' # "panicked")
          => LET ahead == transform(snake_body[1], snake_direction, 1)
                 hits == \E i \in 2..(Len(snake_body) - 1) : snake_body[i] = ahead
             IN  /\ done' <=> hits
                 /\ (ahead = snake_body[Len(snake_body)] /\ ~hits)
                       => ~done' /\ snake_body' # snake_body]_vars

\* a window without Quit closed off the edge, the cell ahead is inside the body,
\* and the game is over
SelfCollisionWitness ==
    /\ pc = "loop"
    /\ done
    /\ command # Quit
    /\ ~OnEdge
    /\ \E i \in 2..(Len(snake_body) - 1) :
          snake_body[i] = transform(snake_body[1], snake_direction, 1)

\* the head is about to move into the cell that the tail vacates
TailCellAhead ==
    /\ pc = "step"
    /\ ~done
    /\ ~OnEdge
    /\ snake_body[Len(snake_body)] = transform(snake_body[1], snake_direction, 1)
    /\ ~has_bitten_itself(snake_body, snake_direction)

(***************************************************************************)
(* C13: a tick that neither ends the game nor puts the head on the food    *)
(* moves the snake one cell: the new body is the cell ahead of the old     *)
(* head followed by the old body without its last point; length, score,    *)
(* speed and food are unchanged.  [(10,10),(9,10),(8,10)] heading Right    *)
(* becomes [(11,10),(10,10),(9,10)].                                       *)
(***************************************************************************)
PlainTickSlithers ==
    [][(pc = "step" /\ ~done /\ ~done' /\ pc' = "loop"
          /\ transform(snake_body[1], snake_direction, 1) # food)
          => /\ snake_body' = <<transform(snake_body[1], snake_direction, 1)>>
                                 \o SubSeq(snake_body, 1, Len(snake_body) - 1)
             /\ Len(snake_body') = Len(snake_body)
             /\ UNCHANGED <<score, speed, food>>
             /\ slither(<<Point(10, 10), Point(9, 10), Point(8, 10)>>, "Right")
                   = <<Point(11, 10), Point(10, 10), Point(9, 10)>>]_vars

\* the snake has just turned Up from heading Right and moved one cell, no food eaten
PlainTickWitness ==
    /\ pc = "loop"
    /\ ~done
    /\ score = 0
    /\ direction = "Right"
    /\ snake_direction = "Up"
    /\ snake_body[2] = transform(snake_body[1], "Down", 1)
    /\ snake_body[3] = transform(snake_body[2], "Left", 1)

(***************************************************************************)
(* C14: place_food is never called with every cell of the board occupied   *)
(* by the snake, so its loop never spins for ever.                         *)
(***************************************************************************)
PlaceFoodFindsFreeCell ==
    /\ pc # "placing"
    /\ pc = "new" => place_food(snake_body, width, height) # {}

(***************************************************************************)
(* C15: for every speed level 0..MAX_SPEED the tick interval is            *)
(* 32 + 12 * (8 - speed) milliseconds, computed in 16-bit arithmetic with  *)
(* no overflow; it lies in 32..128, is 128 at speed 0 and 32 at speed 8,   *)
(* and strictly decreases as the speed rises.  The interval a tick of the  *)
(* game uses is that value.                                                *)
(***************************************************************************)
IntervalTable ==
    /\ \A s \in 0..MAX_SPEED :
          /\ ~calculate_interval_overflows(s)
          /\ MAX_SPEED - s >= 0
          /\ ((MAX_INTERVAL - MIN_INTERVAL) \div MAX_SPEED) * (MAX_SPEED - s) < U16
          /\ MIN_INTERVAL + ((MAX_INTERVAL - MIN_INTERVAL) \div MAX_SPEED) * (MAX_SPEED - s) < U16
          /\ calculate_interval(s) = 32 + 12 * (8 - s)
          /\ calculate_interval(s) \in MIN_INTERVAL..MAX_INTERVAL
    /\ calculate_interval(0) = 128
    /\ calculate_interval(MAX_SPEED) = 32
    /\ \A s \in 0..(MAX_SPEED - 1) : calculate_interval(s + 1) < calculate_interval(s)

\* the table does not depend on the state: it is evaluated once, at pc = "new"
IntervalFormula ==
    /\ pc = "new" => IntervalTable
    /\ (pc \in {"poll", "step"} /\ speed <= MAX_SPEED) =>
          /\ interval = 32 + 12 * (8 - speed)
          /\ interval \in MIN_INTERVAL..MAX_INTERVAL
          /\ speed > 0 => interval < calculate_interval(speed - 1)

IntervalWitness == pc = "poll" /\ speed = MAX_SPEED /\ interval = MIN_INTERVAL

(***************************************************************************)
(* C16: on the 20 x 20 board, for each of the four initial directions d,   *)
(* the game starts with score 0, speed 0 and a snake of length 3 whose     *)
(* head is (10,10) and whose other two segments trail behind the head      *)
(* along opposite(d); the three points are distinct and inside the board.  *)
(* In the first tick, whatever commands other than Quit arrive, neither    *)
(* has_collided_with_wall nor has_bitten_itself reports a collision.       *)
(***************************************************************************)
InitialLayout(d) ==
    CASE d = "Up" -> <<Point(10, 10), Point(10, 11), Point(10, 12)>>
      [] d = "Right" -> <<Point(10, 10), Point(9, 10), Point(8, 10)>>
      [] d = "Down" -> <<Point(10, 10), Point(10, 9), Point(10, 8)>>
      [] d = "Left" -> <<Point(10, 10), Point(11, 10), Point(12, 10)>>

SpawnIsSafe ==
    /\ food = None => pc = "new"
    /\ pc = "new" =>
          /\ score = 0 /\ speed = 0
          /\ Len(snake_body) = 3
          /\ get_head_point(snake_body) = Point(width \div 2, height \div 2)
          /\ snake_body = InitialLayout(snake_direction)
          /\ \A i \in 1..2 : snake_body[i + 1] = transform(snake_body[i], opposite(snake_direction), 1)
          /\ \A i, j \in 1..3 : i # j => snake_body[i] # snake_body[j]
          /\ \A i \in 1..3 : InBoard(snake_body[i])
    /\ (pc = "step" /\ ~done /\ score = 0 /\ snake_body = InitialLayout(direction)) =>
          /\ ~has_collided_with_wall(snake_body, snake_direction, width, height)
          /\ ~has_bitten_itself(snake_body, snake_direction)

SpawnWitness ==
    /\ pc = "step" /\ ~done /\ score = 0
    /\ snake_body = InitialLayout("Right")
    /\ command = Turn("Up") /\ snake_direction = "Up"

(***************************************************************************)
(* C17: while the game is Running the points of the snake body are         *)
(* pairwise distinct, after any ticks, turns and eaten foods: the snake    *)
(* never overlaps itself.                                                  *)
(***************************************************************************)
NoSelfOverlap ==
    Running => \A i, j \in 1..Len(snake_body) : i # j => snake_body[i] # snake_body[j]

(***************************************************************************)
(* C18: the snake never reverses into its own neck.  direction, recorded   *)
(* at tick start, is the direction of the last move; the heading used by   *)
(* a tick is never its opposite, whatever commands arrived, the neck       *)
(* body[2] lies behind the head along that last move, and after every      *)
(* move the new head differs from the neck of before the move.             *)
(***************************************************************************)
NeverReversesIntoNeck ==
    [][/\ pc \in {"poll", "step"} =>
             /\ snake_direction # opposite(direction)
             /\ snake_body[2] = transform(snake_body[1], opposite(direction), 1)
       /\ (pc = "step" /\ snake_body' # snake_body) =>
             /\ snake_body'[1] # snake_body[2]
             /\ snake_body'[2] = transform(snake_body'[1], opposite(snake_direction), 1)]_vars

\* a sideways turn was taken, the reversal that followed was refused, and
\* the snake has moved
ReversalRefused ==
    /\ pc = "loop" /\ ~done
    /\ command = Turn(opposite(direction))
    /\ snake_direction # direction
    /\ snake_body[2] = transform(snake_body[1], opposite(snake_direction), 1)

(***************************************************************************)
(* C19: at every tick boundary the body length is 3 + score.  Length and   *)
(* score never decrease; each changes only in a tick whose slithered head  *)
(* lands on the food, and by exactly one.                                  *)
(***************************************************************************)
AtTickBoundary == pc \in {"new", "loop", "poll", "step", "exited"}

LengthTracksScore ==
    [][/\ AtTickBoundary => Len(snake_body) = InitialLength + score
       /\ score' \in {score, score + 1}
       /\ Len(snake_body') \in {Len(snake_body), Len(snake_body) + 1}
       /\ (score' # score \/ Len(snake_body') # Len(snake_body))
             => pc = "step" /\ HeadReachesFood
       /\ (pc = "step" /\ HeadReachesFood /\ pc' = "loop")
             => score' = score + 1 /\ Len(snake_body') = Len(snake_body) + 1
       /\ pc' = "loop" => Len(snake_body') = InitialLength + score']_vars

LengthTracksScoreWitness ==
    pc = "loop" /\ score >= 2 /\ Len(snake_body) = InitialLength + score

(***************************************************************************)
(* C20: for every board of positive width and height, on a tick that eats  *)
(* food the threshold arithmetic is well defined: width * height fits in   *)
(* 16 bits and (width * height) / MAX_SPEED is at least 1, so the          *)
(* remainder of the score by it never divides by zero.                     *)
(***************************************************************************)
ThresholdWellDefined ==
    [][(pc = "step" /\ ~done /\ score' = score + 1)
          => /\ width >= 1 /\ height >= 1
             /\ width * height < U16
             /\ speed_threshold(width, height) >= 1
             /\ pc' # "panicked"]_vars

====
